---- MODULE Spec2Model ----
(***************************************************************************)
(* Model of the two scripts of the repository:                             *)
(*   scripts/flow_extractor.py  FlowSummarizer (response / done callbacks) *)
(*   analyze_logs.py            the Log Inspector (module-level script)    *)
(*                                                                         *)
(* Python strings are sequences of code points, so that substring tests,   *)
(* concatenation and lexicographic ordering are computed and not assumed.  *)
(* A Python dict is a sequence of <<key, value>> pairs in insertion order. *)
(* A parsed JSON value is a tagged record (t = null, num, str, list, obj); *)
(* a JSON object keeps its members in document order, as json.loads does.  *)
(***************************************************************************)
EXTENDS Integers, Sequences, FiniteSets, Bags, TLC

VARIABLES
    endpoints,      \* FlowSummarizer.endpoints: dict "METHOD URL" -> count
    graphql_calls,  \* FlowSummarizer.graphql_calls: list of records
    hosts,          \* FlowSummarizer.hosts: dict host -> count
    output_path,    \* FlowSummarizer.output_path
    file,           \* content of the file at output_path: <<>> absent, <<c>> present
    writes,         \* number of times the file at output_path was written
    phase,          \* host lifecycle: "running" until the shutdown callback
    callback,       \* the callback the host invoked last: "none", "response", "done"
    flow,           \* <<f>>: the flow argument of the last response callback
    raised,         \* TRUE iff the last callback raised an exception to the host
    nEvents,        \* number of response events delivered so far
    seenHosts,      \* bag of the hosts of the flows delivered (observation log)
    seenEndpoints,  \* bag of the "METHOD URL" keys of the flows delivered
    logLines,       \* Log Inspector: the lines of the log file
    lineNo,         \* Log Inspector: number of lines the for loop has consumed
    logPc,          \* Log Inspector: "idle", "scan", "eof", "break", "raised"
    stdout          \* Log Inspector: the lines printed so far

flowVars == <<endpoints, graphql_calls, hosts, output_path, file, writes,
              phase, callback, flow, raised, nEvents, seenHosts, seenEndpoints>>
logVars == <<logLines, lineNo, logPc, stdout>>
vars == <<flowVars, logVars>>

(***************************************************************************)
(* Bounds                                                                  *)
(***************************************************************************)
MaxEvents == 3     \* response events per run
MaxBatch == 2      \* elements of a batched GraphQL body
MaxLines == 2      \* lines of the log file

(***************************************************************************)
(* Python strings                                                          *)
(***************************************************************************)
\* a < b for Python str: lexicographic by code point
RECURSIVE StrLess(_, _)
StrLess(a, b) ==
    IF b = <<>> THEN FALSE
    ELSE IF a = <<>> THEN TRUE
    ELSE IF Head(a) # Head(b) THEN Head(a) < Head(b)
    ELSE StrLess(Tail(a), Tail(b))

\* the positions at which needle occurs in hay
Occurrences(needle, hay) ==
    { i \in 1..(Len(hay) - Len(needle) + 1) :
        SubSeq(hay, i, i + Len(needle) - 1) = needle }

\* needle in hay
IsSubstring(needle, hay) == Occurrences(needle, hay) # {}

SetMin(S) == CHOOSE x \in S : \A y \in S : x <= y

\* str(n) for a natural number n
RECURSIVE Decimal(_)
Decimal(n) ==
    IF n < 10 THEN <<48 + n>> ELSE Decimal(n \div 10) \o <<48 + (n % 10)>>

\* s.strip() for the whitespace the model uses (space, newline)
RECURSIVE LStrip(_)
LStrip(s) ==
    IF s # <<>> /\ Head(s) \in {32, 10} THEN LStrip(Tail(s)) ELSE s
RECURSIVE RStrip(_)
RStrip(s) ==
    IF s # <<>> /\ s[Len(s)] \in {32, 10}
    THEN RStrip(SubSeq(s, 1, Len(s) - 1)) ELSE s
Strip(s) == RStrip(LStrip(s))

GRAPHQL == <<47,103,114,97,112,104,113,108>>                       \* "/graphql"
PQ == <<112,101,114,115,105,115,116,101,100,81,117,101,114,121>>   \* "persistedQuery"

(***************************************************************************)
(* Parsed JSON values and the Python operations the scripts apply to them  *)
(***************************************************************************)
JNull == [t |-> "null"]                      \* JSON null, Python None
JNum(n) == [t |-> "num", n |-> n]
JStr(s) == [t |-> "str", s |-> s]
JList(items) == [t |-> "list", items |-> items]
JObj(kv) == [t |-> "obj", kv |-> kv]         \* kv: sequence of [k, v], keys distinct
KV(k, v) == [k |-> k, v |-> v]

HasKey(d, key) == \E i \in 1..Len(d.kv) : d.kv[i].k = key

\* d[key] for a dict d that has the key
Subscript(d, key) == d.kv[CHOOSE i \in 1..Len(d.kv) : d.kv[i].k = key].v

\* d.get(key, default) for a dict d
DictGet(d, key, default) == IF HasKey(d, key) THEN Subscript(d, key) ELSE default

\* bool(v)
Truthy(v) ==
    CASE v.t = "null" -> FALSE
      [] v.t = "num" -> v.n # 0
      [] v.t = "str" -> v.s # <<>>
      [] v.t = "list" -> v.items # <<>>
      [] v.t = "obj" -> v.kv # <<>>

(***************************************************************************)
(* Python dicts (insertion ordered) and sorted()                           *)
(***************************************************************************)
DictKeys(d) == { d[i][1] : i \in 1..Len(d) }

\* d.get(key, 0) for a tally
TallyGet(d, key) ==
    IF key \in DictKeys(d)
    THEN d[CHOOSE i \in 1..Len(d) : d[i][1] = key][2]
    ELSE 0

\* variant: the assignment rebinds the tally to a new one-entry dict
TallyIncr_Rebind(d, key) == << <<key, TallyGet(d, key) + 1>> >>

\* d[key] = d.get(key, 0) + 1: an existing key keeps its position, a new
\* key goes to the end
TallyIncr(d, key) ==
    IF key \in DictKeys(d)
    THEN [i \in 1..Len(d) |->
            IF d[i][1] = key THEN <<key, d[i][2] + 1>> ELSE d[i]]
    ELSE Append(d, <<key, 1>>)

\* p < q for (key, count) tuples
ItemLess(p, q) == StrLess(p[1], q[1]) \/ (p[1] = q[1] /\ p[2] < q[2])

RECURSIVE InsertItem(_, _)
InsertItem(p, s) ==
    IF s = <<>> THEN <<p>>
    ELSE IF ItemLess(p, Head(s)) THEN <<p>> \o s
    ELSE <<Head(s)>> \o InsertItem(p, Tail(s))

\* variant: the items are dumped in insertion order
SortedItems_Unsorted(d) == d

\* dict(sorted(d.items()))
RECURSIVE SortedItems(_)
SortedItems(d) ==
    IF d = <<>> THEN <<>> ELSE InsertItem(Head(d), SortedItems(Tail(d)))

(***************************************************************************)
(* The flows the host delivers                                             *)
(***************************************************************************)
\* request bodies: kind says what flow.request.get_text() and json.loads
\* make of the body; data is the value json.loads returns for a JSON text
BodyNone == [kind |-> "none", data |-> JNull]            \* no content: get_text() is None
BodyUndecodable == [kind |-> "undecodable", data |-> JNull]  \* get_text() raises ValueError
BodyEmpty == [kind |-> "empty", data |-> JNull]          \* get_text() is ""
BodyInvalid == [kind |-> "invalid", data |-> JNull]      \* text that is not JSON
BodyJSON(v) == [kind |-> "json", data |-> v]

HashH == JStr(<<104>>)                                   \* "h"
VarsV == JObj(<<KV("id", JNum(1))>>)                     \* {"id": 1}

ItemA == JObj(<<KV("operationName", JStr(<<65>>)), KV("variables", VarsV),
                KV("extensions",
                   JObj(<<KV("persistedQuery", JObj(<<KV("sha256Hash", HashH)>>))>>))>>)
ItemB == JObj(<<KV("operationName", JStr(<<66>>))>>)
ItemEmpty == JObj(<<>>)
ItemNum == JNum(5)
ItemBadPQ == JObj(<<KV("operationName", JStr(<<67>>)),
                    KV("extensions", JObj(<<KV("persistedQuery", HashH)>>))>>)
ItemExtNum == JObj(<<KV("operationName", JStr(<<68>>)), KV("extensions", JNum(7))>>)
ItemExtStrPQ == JObj(<<KV("extensions", JStr(<<120>> \o PQ)), KV("variables", VarsV)>>)
ItemExtStr == JObj(<<KV("operationName", JStr(<<69>>)), KV("extensions", JStr(<<120>>))>>)
ItemExtList == JObj(<<KV("extensions", JList(<<JStr(PQ)>>))>>)
ItemExtOther == JObj(<<KV("operationName", JStr(<<70>>)),
                       KV("extensions", JObj(<<KV("other", JNum(1))>>))>>)
ItemExtNull == JObj(<<KV("operationName", JNull), KV("extensions", JNull)>>)

SingleItems == {ItemA, ItemB, ItemEmpty, ItemNum, ItemBadPQ, ItemExtNum,
                ItemExtStrPQ, ItemExtStr, ItemExtList, ItemExtOther, ItemExtNull}
BatchItems == {ItemA, ItemB, ItemBadPQ}

\* the batched payloads: up to MaxBatch distinct operations, in every order
Batches ==
    UNION { { b \in [1..n -> BatchItems] : \A i, j \in 1..n : b[i] = b[j] => i = j } :
            n \in 0..MaxBatch }

Bodies == {BodyNone, BodyUndecodable, BodyEmpty, BodyInvalid}
            \cup { BodyJSON(v) : v \in SingleItems }
            \cup { BodyJSON(JList(b)) : b \in Batches }

HostA == <<97>>                                          \* "a"
HostB == <<98>>                                          \* "b"
GET == <<71,69,84>>
POST == <<80,79,83,84>>

\* flow.request: url is scheme://host followed by the path
Request(method, host, path, body) ==
    [method |-> method, host |-> host, path |-> path,
     url |-> <<104,116,116,112,58,47,47>> \o host \o path, body |-> body]

Flows ==
    { Request(GET, HostA, <<47,120>>, BodyNone),                       \* GET http://a/x
      Request(POST, HostB, <<47,121>>, BodyJSON(ItemA)),               \* POST http://b/y
      Request(GET, HostA, <<47,103,114,97,112,104>>,
              BodyJSON(JList(<<ItemB>>))),                             \* GET http://a/graph
      Request(POST, HostB, <<47,97,112,105>> \o GRAPHQL \o <<63,113>>,
              BodyJSON(ItemB)),                                        \* POST http://b/api/graphql?q
      Request(POST, HostB, <<47,97,112,105>> \o GRAPHQL \o <<63,113>>,
              BodyInvalid) }
    \cup { Request(POST, HostA, GRAPHQL, b) : b \in Bodies }           \* POST http://a/graphql

(***************************************************************************)
(* FlowSummarizer                                                          *)
(***************************************************************************)
Raise(calls) == [raised |-> TRUE, calls |-> calls]
Return(calls) == [raised |-> FALSE, calls |-> calls]

\* the record _process_graphql_item appends
CallRecord(f, operation_name, sha256_hash, variables) ==
    [host |-> f.host, operationName |-> operation_name, path |-> f.path,
     sha256Hash |-> sha256_hash, variables |-> variables]

\* the exception, if any, of: extensions and "persistedQuery" in extensions
ExtensionsTestRaises(extensions) ==
    Truthy(extensions) /\ extensions.t = "num"

\* the value of: extensions and "persistedQuery" in extensions
ExtensionsTest(extensions) ==
    /\ Truthy(extensions)
    /\ CASE extensions.t = "obj" -> HasKey(extensions, "persistedQuery")
         [] extensions.t = "list" ->
                \E i \in 1..Len(extensions.items) : extensions.items[i] = JStr(PQ)
         [] extensions.t = "str" -> IsSubstring(PQ, extensions.s)
         [] OTHER -> FALSE

\* _process_graphql_item(flow, item) on the list calls
ProcessGraphqlItem(calls, f, item) ==
    IF item.t # "obj" THEN Raise(calls)                   \* item.get: AttributeError
    ELSE
      LET operation_name == DictGet(item, "operationName", JNull)
          variables == DictGet(item, "variables", JNull)
          extensions == DictGet(item, "extensions", JNull)
      IN  IF ExtensionsTestRaises(extensions) THEN Raise(calls)
          ELSE IF ~ExtensionsTest(extensions)
          THEN Return(Append(calls, CallRecord(f, operation_name, JNull, variables)))
          ELSE IF extensions.t # "obj" THEN Raise(calls)  \* extensions["persistedQuery"]
          ELSE IF Subscript(extensions, "persistedQuery").t # "obj"
          THEN Raise(calls)                               \* .get: AttributeError
          ELSE Return(Append(calls,
                   CallRecord(f, operation_name,
                       DictGet(Subscript(extensions, "persistedQuery"),
                               "sha256Hash", JNull),
                       variables)))

\* variant: a try block around each element, a failing element is skipped
RECURSIVE ProcessBatch_SkipFailed(_, _, _)
ProcessBatch_SkipFailed(calls, f, items) ==
    IF items = <<>> THEN Return(calls)
    ELSE ProcessBatch_SkipFailed(ProcessGraphqlItem(calls, f, Head(items)).calls,
                                 f, Tail(items))

\* for item in data: self._process_graphql_item(flow, item)
RECURSIVE ProcessBatch(_, _, _)
ProcessBatch(calls, f, items) ==
    IF items = <<>> THEN Return(calls)
    ELSE LET r == ProcessGraphqlItem(calls, f, Head(items))
         IN  IF r.raised THEN r ELSE ProcessBatch(r.calls, f, Tail(items))

\* the body of the try block of response
InspectGraphql(calls, f) ==
    IF f.body.kind = "undecodable" THEN Raise(calls)      \* get_text()
    ELSE IF f.body.kind \in {"none", "empty"} THEN Return(calls)   \* if content:
    ELSE IF f.body.kind = "invalid" THEN Raise(calls)     \* json.loads
    ELSE IF f.body.data.t = "list" THEN ProcessBatch(calls, f, f.body.data.items)
    ELSE ProcessGraphqlItem(calls, f, f.body.data)

\* variant: every flow is inspected, whatever its path
GraphqlCallsAfter_AnyPath(calls, f) == InspectGraphql(calls, f).calls

\* the graphql_calls list after response(flow); except Exception: pass
GraphqlCallsAfter(calls, f) ==
    IF IsSubstring(GRAPHQL, f.path) THEN InspectGraphql(calls, f).calls ELSE calls

EndpointKey(f) == f.method \o <<32>> \o f.url

OutputPaths == {"summary.json", "missing_dir/summary.json"}
\* the paths open(path, "w") succeeds on
CanOpen(path) == path = "summary.json"

\* what an earlier run left in the output file
StaleSummary ==
    [endpoints |-> << <<GET \o <<32, 122>>, 9>> >>,
     graphql_calls |-> <<CallRecord(Request(GET, HostB, GRAPHQL, BodyNone),
                                    JNull, JNull, JNull)>>,
     hosts |-> << <<<<122>>, 9>> >>]

LogIdle ==
    /\ logLines = <<>>
    /\ lineNo = 0
    /\ logPc = "idle"
    /\ stdout = <<>>

Constructed ==
    /\ endpoints = <<>>
    /\ graphql_calls = <<>>
    /\ hosts = <<>>
    /\ phase = "running"
    /\ callback = "none"
    /\ flow = <<>>
    /\ raised = FALSE
    /\ nEvents = 0
    /\ writes = 0
    /\ seenHosts = EmptyBag
    /\ seenEndpoints = EmptyBag

Init ==
    /\ Constructed
    /\ output_path \in OutputPaths
    /\ file \in {<<>>, <<StaleSummary>>}
    /\ LogIdle

\* variant: the tallies are updated inside the try block, after the inspection
response_TallyAfterInspect(f) ==
    /\ phase = "running"
    /\ nEvents < MaxEvents
    /\ LET counted == ~(IsSubstring(GRAPHQL, f.path)
                         /\ InspectGraphql(graphql_calls, f).raised)
       IN  /\ hosts' = IF counted THEN TallyIncr(hosts, f.host) ELSE hosts
           /\ endpoints' = IF counted THEN TallyIncr(endpoints, EndpointKey(f))
                           ELSE endpoints
    /\ graphql_calls' = GraphqlCallsAfter(graphql_calls, f)
    /\ raised' = FALSE
    /\ callback' = "response"
    /\ flow' = <<f>>
    /\ nEvents' = nEvents + 1
    /\ seenHosts' = seenHosts (+) SetToBag({f.host})
    /\ seenEndpoints' = seenEndpoints (+) SetToBag({EndpointKey(f)})
    /\ UNCHANGED <<output_path, file, writes, phase, logVars>>

\* FlowSummarizer.response(flow)
response(f) ==
    /\ phase = "running"
    /\ nEvents < MaxEvents
    /\ hosts' = TallyIncr(hosts, f.host)
    /\ endpoints' = TallyIncr(endpoints, EndpointKey(f))
    /\ graphql_calls' = GraphqlCallsAfter(graphql_calls, f)
    /\ raised' = FALSE
    /\ callback' = "response"
    /\ flow' = <<f>>
    /\ nEvents' = nEvents + 1
    /\ seenHosts' = seenHosts (+) SetToBag({f.host})
    /\ seenEndpoints' = seenEndpoints (+) SetToBag({EndpointKey(f)})
    /\ UNCHANGED <<output_path, file, writes, phase, logVars>>

Summary ==
    [endpoints |-> SortedItems(endpoints),
     graphql_calls |-> graphql_calls,
     hosts |-> SortedItems(hosts)]

\* variant: the file is opened in append mode
done_Append ==
    /\ phase = "running"
    /\ phase' = "stopped"
    /\ callback' = "done"
    /\ IF CanOpen(output_path)
       THEN /\ file' = file \o <<Summary>>
            /\ writes' = writes + 1
            /\ raised' = FALSE
       ELSE /\ raised' = TRUE
            /\ UNCHANGED <<file, writes>>
    /\ UNCHANGED <<endpoints, graphql_calls, hosts, output_path, flow, nEvents,
                   seenHosts, seenEndpoints, logVars>>

\* FlowSummarizer.done(), which the host calls once, at shutdown
done ==
    /\ phase = "running"
    /\ phase' = "stopped"
    /\ callback' = "done"
    /\ IF CanOpen(output_path)
       THEN /\ file' = <<Summary>>
            /\ writes' = writes + 1
            /\ raised' = FALSE
       ELSE /\ raised' = TRUE                              \* open raises OSError
            /\ UNCHANGED <<file, writes>>
    /\ UNCHANGED <<endpoints, graphql_calls, hosts, output_path, flow, nEvents,
                   seenHosts, seenEndpoints, logVars>>

Response == \E f \in Flows : response(f)

Next == Response \/ done

Spec == Init /\ [][Next]_vars

(***************************************************************************)
(* Log Inspector (analyze_logs.py)                                         *)
(***************************************************************************)
\* "DEBUG: entryPoint(home-page) response:"
MARKER == <<68,69,66,85,71,58,32,101,110,116,114,121,80,111,105,110,116,40,104,111,
            109,101,45,112,97,103,101,41,32,114,101,115,112,111,110,115,101,58>>
SEP == <<114,101,115,112,111,110,115,101,58,32>>          \* "response: "
UNKNOWN == <<85,110,107,110,111,119,110>>                  \* "Unknown"

\* A line of the log file is text followed by a payload; the payload is
\* described as a request body is: nothing, text that is not JSON, or the
\* JSON text of a value (none of them contains the marker or "response: ").
LogLine(text, payload) == [text |-> text, payload |-> payload]

\* "DEBUG: entryPoint(home-page) response:" in line
HasMarker(line) == IsSubstring(MARKER, line.text)

\* line.split("response: ", 1) has no element 1: IndexError
SplitRaises(line) == Occurrences(SEP, line.text) = {}

\* the text part of line.split("response: ", 1)[1]; the payload follows it
SplitRest(line) ==
    SubSeq(line.text, SetMin(Occurrences(SEP, line.text)) + Len(SEP), Len(line.text))

\* json.loads(json_str) raises JSONDecodeError
LoadsRaises(line) == ~(Strip(SplitRest(line)) = <<>> /\ line.payload.kind = "json")

\* str(value) of a scalar
StrOf(v) ==
    CASE v.t = "str" -> v.s
      [] v.t = "num" -> Decimal(v.n)
      [] v.t = "null" -> <<78,111,110,101>>                \* "None"

Printed(kind, n, key, text) == [kind |-> kind, n |-> n, key |-> key, text |-> text]

\* the line printed for one (key, value) of a component
FieldLine(key, value) ==
    IF value.t = "list"
    THEN Printed("field", 0, key, Decimal(Len(value.items)) \o <<32,105,116,101,109,115>>)
    ELSE IF value.t = "obj"
    THEN Printed("field", 0, key, <<40,100,105,99,116,41>>)
    ELSE LET val_str == StrOf(value)
         IN  Printed("field", 0, key,
                     IF Len(val_str) > 50
                     THEN SubSeq(val_str, 1, 50) \o <<46,46,46>>
                     ELSE val_str)

\* variant: the field loop leaves the __typename member out
FieldLines_SkipTypename(comp) ==
    LET RECURSIVE Go(_)
        Go(kv) == IF kv = <<>> THEN <<>>
                  ELSE (IF Head(kv).k = "__typename" THEN <<>>
                        ELSE <<FieldLine(Head(kv).k, Head(kv).v)>>) \o Go(Tail(kv))
    IN  Go(comp.kv)

\* for key, value in comp.items(): print ...
FieldLines(comp) == [j \in 1..Len(comp.kv) |-> FieldLine(comp.kv[j].k, comp.kv[j].v)]

\* the elements a for loop over components yields
Elements(components) ==
    CASE components.t = "list" -> components.items
      [] components.t = "obj" ->
            [j \in 1..Len(components.kv) |-> JStr(<<107>>)]       \* the keys, str
      [] components.t = "str" ->
            [j \in 1..Len(components.s) |-> JStr(<<components.s[j]>>)]

\* for i, comp in enumerate(components): ..., from the i-th element on
RECURSIVE PrintComponents(_, _, _)
PrintComponents(out, elems, i) ==
    IF i > Len(elems) THEN [raised |-> FALSE, out |-> out]
    ELSE IF elems[i].t # "obj" THEN [raised |-> TRUE, out |-> out]  \* comp.get
    ELSE PrintComponents(
            out \o <<Printed("typename", i, "",
                             StrOf(DictGet(elems[i], "__typename", JStr(UNKNOWN))))>>
                \o FieldLines(elems[i]),
            elems, i + 1)

\* the try block, after json.loads returned data
Report(out, data) ==
    IF data.t # "obj" THEN [raised |-> TRUE, out |-> out]         \* data.get
    ELSE LET d1 == DictGet(data, "data", JObj(<<>>))
         IN  IF d1.t # "obj" THEN [raised |-> TRUE, out |-> out]
             ELSE LET d2 == DictGet(d1, "nativeEntryPoint", JObj(<<>>))
                  IN  IF d2.t # "obj" THEN [raised |-> TRUE, out |-> out]
                      ELSE LET components == DictGet(d2, "visualComponents", JList(<<>>))
                           IN  IF components.t \in {"null", "num"}
                               THEN [raised |-> TRUE, out |-> out]   \* len(components)
                               ELSE PrintComponents(
                                       Append(out, Printed("found",
                                                  Len(Elements(components)), "", <<>>)),
                                       Elements(components), 1)

\* the body of: if "DEBUG: entryPoint(home-page) response:" in line
HandleMarkerLine(out, line) ==
    IF SplitRaises(line) THEN [raised |-> TRUE, out |-> out]      \* IndexError
    ELSE IF LoadsRaises(line)
    THEN [raised |-> FALSE, out |-> Append(out, Printed("failed", 0, "", <<>>))]
    ELSE Report(out, line.payload.data)

LongText == [j \in 1..51 |-> 120]                                 \* 51 times "x"

CompBanner ==
    JObj(<<KV("__typename", JStr(<<66>>)), KV("items", JList(<<JNum(1), JNum(2)>>)),
           KV("meta", JObj(<<KV("a", JNull)>>)), KV("title", JStr(LongText))>>)
CompPlain == JObj(<<KV("id", JNum(7)), KV("note", JNull)>>)
CompTag == JObj(<<KV("__typename", JStr(<<84>>))>>)

Components(list) ==
    JObj(<<KV("data", JObj(<<KV("nativeEntryPoint",
                                JObj(<<KV("visualComponents", list)>>))>>))>>)

Payloads ==
    { BodyEmpty, BodyInvalid,
      BodyJSON(Components(JList(<<CompBanner, CompPlain>>))),
      BodyJSON(Components(JList(<<CompPlain, CompTag, CompBanner>>))),
      BodyJSON(Components(JList(<<>>))),
      BodyJSON(Components(JList(<<CompTag, JNum(5)>>))),
      BodyJSON(Components(JNull)),
      BodyJSON(Components(JStr(<<97, 98>>))),
      BodyJSON(Components(JObj(<<>>))),
      BodyJSON(JObj(<<>>)),
      BodyJSON(JObj(<<KV("data", JObj(<<KV("nativeEntryPoint", JObj(<<>>))>>))>>)),
      BodyJSON(JObj(<<KV("data", JNull)>>)),
      BodyJSON(JList(<<>>)) }

LogLinesSet ==
    { LogLine(<<73,78,70,79,58,32,115,116,97,114,116>>, BodyEmpty),     \* "INFO: start"
      LogLine(<<73,78,70,79,58,32>> \o SEP, BodyJSON(JObj(<<>>))),      \* "INFO: response: {}"
      LogLine(MARKER, BodyJSON(JObj(<<>>))),                            \* no space after the marker
      LogLine(SEP \o MARKER \o <<32>>, BodyJSON(Components(JList(<<CompTag>>)))) }
    \cup { LogLine(MARKER \o <<32>>, pl) : pl \in Payloads }

LogFiles == UNION { [1..n -> LogLinesSet] : n \in 0..MaxLines }

LogInit ==
    /\ Constructed
    /\ output_path = "summary.json"
    /\ file = <<>>
    /\ logLines \in LogFiles
    /\ lineNo = 0
    /\ logPc = "scan"
    /\ stdout = <<>>

\* an iteration of the for loop on a line without the marker
SkipLine ==
    /\ logPc = "scan"
    /\ lineNo < Len(logLines)
    /\ ~HasMarker(logLines[lineNo + 1])
    /\ lineNo' = lineNo + 1
    /\ UNCHANGED <<logLines, logPc, stdout, flowVars>>

\* the iteration of the for loop on the first line with the marker
MarkerLine ==
    /\ logPc = "scan"
    /\ lineNo < Len(logLines)
    /\ HasMarker(logLines[lineNo + 1])
    /\ LET r == HandleMarkerLine(stdout, logLines[lineNo + 1])
       IN  /\ stdout' = r.out
           /\ logPc' = IF r.raised THEN "raised" ELSE "break"
    /\ lineNo' = lineNo + 1
    /\ UNCHANGED <<logLines, flowVars>>

\* the file is exhausted
EndOfFile ==
    /\ logPc = "scan"
    /\ lineNo = Len(logLines)
    /\ logPc' = "eof"
    /\ UNCHANGED <<logLines, lineNo, stdout, flowVars>>

LogNext == SkipLine \/ MarkerLine \/ EndOfFile

LogSpec == LogInit /\ [][LogNext]_vars

(***************************************************************************)
(* Properties of the FlowSummarizer                                        *)
(***************************************************************************)
\* the flow of the response callback that has just returned
LastFlow == flow[1]

IsGraphqlPath(f) == IsSubstring(GRAPHQL, f.path)

\* a member of a JSON object, or null when the value is no object or has no
\* such member
Member(v, key) ==
    IF v.t = "obj" /\ \E i \in 1..Len(v.kv) : v.kv[i].k = key
    THEN v.kv[CHOOSE i \in 1..Len(v.kv) : v.kv[i].k = key].v
    ELSE JNull

\* the call record the interface documents for one operation of flow f
ExpectedRecord(f, item) ==
    [host |-> f.host,
     operationName |-> Member(item, "operationName"),
     path |-> f.path,
     sha256Hash |-> Member(Member(Member(item, "extensions"), "persistedQuery"),
                           "sha256Hash"),
     variables |-> Member(item, "variables")]

ExpectedRecords(f, items) == [i \in 1..Len(items) |-> ExpectedRecord(f, items[i])]

\* f is a /graphql flow whose body is a JSON array of operations (objects)
IsBatchFlow(f) ==
    /\ IsGraphqlPath(f)
    /\ f.body.kind = "json"
    /\ f.body.data.t = "list"
    /\ \A i \in 1..Len(f.body.data.items) : f.body.data.items[i].t = "obj"

\* C1: a response event for a /graphql flow whose body is an array of k
\* operations appends exactly k records to graphql_calls, the i-th of them
\* built from the i-th element of the array.
C1_BatchAppendsEveryOperation ==
    [][(callback' = "response" /\ IsBatchFlow(flow'[1])) =>
          graphql_calls' =
              graphql_calls \o ExpectedRecords(flow'[1], flow'[1].body.data.items)]_vars

\* C2: a response event for a flow whose path does not contain "/graphql"
\* adds one to the endpoint tally of "METHOD URL" and to the host tally of
\* the host, and changes no other tally entry and not graphql_calls.
C2_NonGraphqlFrame ==
    [][(callback' = "response" /\ ~IsGraphqlPath(flow'[1])) =>
          LET f == flow'[1]
              key == f.method \o <<32>> \o f.url
          IN  /\ graphql_calls' = graphql_calls
              /\ DictKeys(endpoints') = DictKeys(endpoints) \cup {key}
              /\ DictKeys(hosts') = DictKeys(hosts) \cup {f.host}
              /\ \A k \in DictKeys(endpoints') :
                    TallyGet(endpoints', k) =
                        TallyGet(endpoints, k) + (IF k = key THEN 1 ELSE 0)
              /\ \A h \in DictKeys(hosts') :
                    TallyGet(hosts', h) =
                        TallyGet(hosts, h) + (IF h = f.host THEN 1 ELSE 0)
              /\ Len(endpoints') = Cardinality(DictKeys(endpoints'))
              /\ Len(hosts') = Cardinality(DictKeys(hosts'))]_vars

\* a non-GraphQL flow that carries a GraphQL-looking JSON body has been
\* counted after GraphQL calls had already been recorded
C2_Witness ==
    /\ callback = "response"
    /\ ~IsGraphqlPath(LastFlow)
    /\ LastFlow.body.kind = "json"
    /\ graphql_calls # <<>>
    /\ TallyGet(hosts, LastFlow.host) >= 2

\* the keys of a dumped tally ascend strictly
KeysAscending(t) == \A i \in 1..(Len(t) - 1) : StrLess(t[i][1], t[i + 1][1])

\* a dumped tally holds exactly the observed keys, each with the number of
\* observations
CountsObserved(t, seen) ==
    /\ { t[i][1] : i \in 1..Len(t) } = BagToSet(seen)
    /\ \A i \in 1..Len(t) : t[i][2] = CopiesIn(t[i][1], seen)

KeyGetAX == GET \o <<32>> \o <<104,116,116,112,58,47,47,97,47,120>>   \* "GET http://a/x"
KeyPostBY == POST \o <<32>> \o <<104,116,116,112,58,47,47,98,47,121>> \* "POST http://b/y"

\* C3: the tallies of the persisted summary list their keys in ascending
\* order, each with the number of observed events of that key; two
\* GET http://a/x and one POST http://b/y give hosts {a: 2, b: 1} and
\* endpoints {"GET http://a/x": 2, "POST http://b/y": 1}.
C3_PersistedTalliesSortedAndCounted ==
    (phase = "stopped" /\ writes = 1) =>
        /\ Len(file) = 1
        /\ KeysAscending(file[1].endpoints)
        /\ KeysAscending(file[1].hosts)
        /\ CountsObserved(file[1].endpoints, seenEndpoints)
        /\ CountsObserved(file[1].hosts, seenHosts)
        /\ (seenEndpoints = (KeyGetAX :> 2) @@ (KeyPostBY :> 1)) =>
              /\ file[1].hosts = << <<HostA, 2>>, <<HostB, 1>> >>
              /\ file[1].endpoints = << <<KeyGetAX, 2>>, <<KeyPostBY, 1>> >>

\* the example's three requests were observed with the POST first, so that
\* the tallies were not in key order when done dumped them
C3_Witness ==
    /\ phase = "stopped"
    /\ writes = 1
    /\ seenEndpoints = (KeyGetAX :> 2) @@ (KeyPostBY :> 1)
    /\ hosts[1][1] = HostB
    /\ file[1].hosts = << <<HostA, 2>>, <<HostB, 1>> >>

\* C4: neither callback surfaces an error to the host.
C4_NoCallbackRaises == raised = FALSE

\* C5: every response event adds exactly one to the host tally and to the
\* endpoint tally of its flow, whatever the GraphQL inspection does.
C5_EveryFlowCounted ==
    [][callback' = "response" =>
          LET f == flow'[1]
              key == f.method \o <<32>> \o f.url
          IN  /\ TallyGet(hosts', f.host) = TallyGet(hosts, f.host) + 1
              /\ TallyGet(endpoints', key) = TallyGet(endpoints, key) + 1]_vars

\* extracting the call record of one payload element raises
Malformed(f, item) == ProcessGraphqlItem(<<>>, f, item).raised

\* the GraphQL inspection of the flow f fails: the body cannot be read as
\* text or is not JSON, or the payload or one element of the batch is
\* malformed
InspectionFails(f) ==
    /\ IsGraphqlPath(f)
    /\ \/ f.body.kind \in {"undecodable", "invalid"}
       \/ /\ f.body.kind = "json"
          /\ IF f.body.data.t = "list"
             THEN \E i \in 1..Len(f.body.data.items) : Malformed(f, f.body.data.items[i])
             ELSE Malformed(f, f.body.data)

\* a /graphql flow whose inspection raised has been counted for the second time
C5_Witness ==
    /\ callback = "response"
    /\ InspectionFails(LastFlow)
    /\ LastFlow.body.kind \in {"invalid", "json"}
    /\ TallyGet(hosts, LastFlow.host) >= 2
    /\ TallyGet(endpoints, LastFlow.method \o <<32>> \o LastFlow.url) >= 2

\* C6 as stated: a response event whose GraphQL inspection fails leaves
\* graphql_calls exactly as it was.
C6_FailedInspectionLeavesCalls ==
    [][(callback' = "response" /\ InspectionFails(flow'[1])) =>
          graphql_calls' = graphql_calls]_vars

\* the elements of a batch that precede its first malformed element
RECURSIVE WellFormedPrefix(_, _)
WellFormedPrefix(f, items) ==
    IF items = <<>> \/ Malformed(f, Head(items))
    THEN <<>>
    ELSE <<Head(items)>> \o WellFormedPrefix(f, Tail(items))

\* C6 amended: a response event whose GraphQL inspection fails appends no
\* record of the malformed element nor of any element after it: graphql_calls
\* is unchanged unless the payload is an array, and then it grows by the
\* records of the elements that precede the first malformed one.
C6_FailedInspectionKeepsOnlyPrefix ==
    [][(callback' = "response" /\ InspectionFails(flow'[1])) =>
          LET f == flow'[1]
          IN  IF f.body.kind = "json" /\ f.body.data.t = "list"
              THEN graphql_calls' =
                      graphql_calls \o
                          ExpectedRecords(f, WellFormedPrefix(f, f.body.data.items))
              ELSE graphql_calls' = graphql_calls]_vars

\* a batch whose second element is malformed has been inspected: the record
\* of its first element is the last of graphql_calls
C6_Witness ==
    /\ callback = "response"
    /\ InspectionFails(LastFlow)
    /\ LastFlow.body.kind = "json"
    /\ LastFlow.body.data.t = "list"
    /\ WellFormedPrefix(LastFlow, LastFlow.body.data.items) # <<>>
    /\ graphql_calls # <<>>
    /\ graphql_calls[Len(graphql_calls)] =
          ExpectedRecord(LastFlow, LastFlow.body.data.items[1])

\* C7: no tally value decreases, no tally key disappears, and graphql_calls
\* only grows at its end, by records of the flow just observed.
C7_MonotoneAndAppendOnly ==
    [][/\ \A k \in DictKeys(hosts) :
             k \in DictKeys(hosts') /\ TallyGet(hosts', k) >= TallyGet(hosts, k)
       /\ \A k \in DictKeys(endpoints) :
             k \in DictKeys(endpoints')
                 /\ TallyGet(endpoints', k) >= TallyGet(endpoints, k)
       /\ Len(graphql_calls') >= Len(graphql_calls)
       /\ SubSeq(graphql_calls', 1, Len(graphql_calls)) = graphql_calls
       /\ \A i \in (Len(graphql_calls) + 1)..Len(graphql_calls') :
             /\ callback' = "response"
             /\ graphql_calls'[i].host = flow'[1].host
             /\ graphql_calls'[i].path = flow'[1].path]_vars

\* done has run after a key was counted twice and two flows left records
C7_Witness ==
    /\ callback = "done"
    /\ \E k \in DictKeys(hosts) : TallyGet(hosts, k) >= 2
    /\ \E k \in DictKeys(endpoints) : TallyGet(endpoints, k) >= 2
    /\ \E i \in 1..Len(graphql_calls), j \in 1..Len(graphql_calls) :
          i < j /\ graphql_calls[i].path # graphql_calls[j].path

\* C8 as stated: in any run the output file is written exactly once.
C8_WrittenExactlyOnce == phase = "stopped" => writes = 1

\* C8 amended: the output file is written at most once and only by done,
\* once when done can open the output path and not at all when it cannot;
\* response never writes it; the write replaces the prior content by the
\* complete summary of the flows observed so far.
C8_WrittenOnlyByDoneAndWhole ==
    [][/\ callback' = "response" => (file' = file /\ writes' = writes)
       /\ writes' <= 1
       /\ writes' # writes => callback' = "done"
       /\ callback' = "done" =>
             IF output_path = "summary.json"
             THEN /\ writes' = 1
                  /\ Len(file') = 1
                  /\ file'[1].graphql_calls = graphql_calls
                  /\ CountsObserved(file'[1].endpoints, seenEndpoints)
                  /\ CountsObserved(file'[1].hosts, seenHosts)
             ELSE file' = file /\ writes' = 0]_vars

\* done has dumped a summary with call records and two tally keys
C8_Witness ==
    /\ phase = "stopped"
    /\ writes = 1
    /\ Len(file) = 1
    /\ Len(file[1].graphql_calls) >= 2
    /\ Len(file[1].hosts) = 2
    /\ file[1] # StaleSummary

(***************************************************************************)
(* Properties of the Log Inspector                                         *)
(***************************************************************************)
\* the line the for loop handled last
HandledLine == logLines[lineNo]

\* the marker line has been handled
MarkerHandled == lineNo >= 1 /\ logPc \in {"break", "raised"}

\* the value at data.nativeEntryPoint.visualComponents of a payload
TargetList(line) ==
    Member(Member(Member(line.payload.data, "data"), "nativeEntryPoint"),
           "visualComponents")

\* the marker line carries valid JSON whose target list holds components
CarriesComponents(line) ==
    /\ Occurrences(SEP, line.text) # {}
    /\ Strip(SplitRest(line)) = <<>>
    /\ line.payload.kind = "json"
    /\ TargetList(line).t = "list"
    /\ \A i \in 1..Len(TargetList(line).items) : TargetList(line).items[i].t = "obj"

OtherFields(comp) == { j \in 1..Len(comp.kv) : comp.kv[j].k # "__typename" }
CountOtherFields(comp) == Cardinality(OtherFields(comp))
CountFields(comp) == Len(comp.kv)

\* the position in the output of the typename line of component i, when
\* component j is followed by NL(j) field lines
RECURSIVE BlockStart(_, _, _)
BlockStart(NL(_), comps, i) ==
    IF i = 1 THEN 2 ELSE BlockStart(NL, comps, i - 1) + 1 + NL(comps[i - 1])

\* out is "Found N components:" and then, per component, a typename line
\* followed by NL(component) field lines
ReportShape(NL(_), out, comps) ==
    /\ Len(out) = BlockStart(NL, comps, Len(comps) + 1) - 1
    /\ out[1].kind = "found"
    /\ out[1].n = Len(comps)
    /\ \A i \in 1..Len(comps) :
          /\ out[BlockStart(NL, comps, i)].kind = "typename"
          /\ out[BlockStart(NL, comps, i)].n = i
          /\ \A m \in 1..NL(comps[i]) :
                out[BlockStart(NL, comps, i) + m].kind = "field"

\* C9 as stated: for a marker line with N components the output reports N
\* components and has, for each, a typename line followed by one line for
\* each of its fields other than the typename field.
C9_OneLinePerOtherField ==
    (MarkerHandled /\ CarriesComponents(HandledLine)) =>
        /\ logPc = "break"
        /\ ReportShape(CountOtherFields, stdout, TargetList(HandledLine).items)

\* C9 amended: for a marker line with N components the output reports N
\* components and has, for each, a typename line followed by one line for
\* each of its fields in document order, the typename field included.
C9_OneLinePerField ==
    (MarkerHandled /\ CarriesComponents(HandledLine)) =>
        LET comps == TargetList(HandledLine).items
        IN  /\ logPc = "break"
            /\ ReportShape(CountFields, stdout, comps)
            /\ \A i \in 1..Len(comps) : \A m \in 1..Len(comps[i].kv) :
                  stdout[BlockStart(CountFields, comps, i) + m].key = comps[i].kv[m].k

\* after a skipped line, a marker line with at least two components, one
\* with and one without a typename field, has been reported
C9_Witness ==
    /\ MarkerHandled
    /\ lineNo >= 2
    /\ CarriesComponents(HandledLine)
    /\ Len(TargetList(HandledLine).items) >= 2
    /\ \E i, j \in 1..Len(TargetList(HandledLine).items) :
          /\ OtherFields(TargetList(HandledLine).items[i])
                # 1..Len(TargetList(HandledLine).items[i].kv)
          /\ OtherFields(TargetList(HandledLine).items[j])
                = 1..Len(TargetList(HandledLine).items[j].kv)
    /\ Len(stdout) > 1 + Len(TargetList(HandledLine).items)

\* C10: the Log Inspector never raises while it handles the marker line.
C10_MarkerLineNeverRaises == logPc # "raised"

====
